---------------------------- MODULE Spec2Model ----------------------------
(***************************************************************************)
(* PyThermal: state enumeration, parallel Hamiltonian assembly, relabelling *)
(* and reduced density matrices (src/pythermal/routines.py, src/Main.py).   *)
(*                                                                          *)
(* Python indices are 0-based and are kept 0-based here (rows, columns,     *)
(* process numbers); a Python list or array a is a TLA+ sequence, so the    *)
(* element a[i] of the code is a[i + 1] in the model.                       *)
(***************************************************************************)
EXTENDS Integers, Sequences, FiniteSets, TLC

(* Bounds of the model. *)
MaxDims == 2
MaxSites == 4
MaxNop == 2
MaxProcs == 3
MaxDel == 2
MaxNsa == 3
MaxLabels == 4
MaxSupport == 2
MaxScale == 2
MaxEig == 3

(* The run configuration of class System in Main.py. *)
SystemNop == 3
SystemNsa == 4
SystemLatDelPos == <<3, 4, 9, 13>>

VARIABLES
    nop,          \* number of particles (argument of every routine)
    \* hamiltonian_parallel
    ndims,        \* lattice dimension
    pos_states,   \* position states (sequence of states)
    n_processes,  \* mp.cpu_count()
    ham,          \* the global shared array: ham[j][k], 0-based, int8
    written,      \* per row j, the process numbers that wrote the cells
                  \* ham[j, 0..nos-1] (one inner loop each), in order
    procs,        \* per process number: its status, next row j and stop
    mpc,          \* position of hamiltonian_parallel: spawn, join, done
    mi,           \* loop index of hamiltonian_parallel's current loop
    \* position_states / eigenstates_lattice
    lat,          \* array of lattice sites
    del_pos,      \* the del_pos argument: None, or an array of 1-based positions
    epc,          \* "call", or the name of the routine that has returned
    ret,          \* the returned (states, count)
    \* relabel
    e_states,     \* the joint state space
    lat_a,        \* array of the labels of sub-lattice A
    nol_b,        \* number of lattice sites in B
    x,            \* the counters: x[0][n] (distinct A-patterns), x[1][n] (cyclic)
    dump,         \* the A-patterns seen so far
    relabelled_states,  \* the records emitted so far
    ri,           \* 0-based index of the next state of the for loop
    rpc,          \* position of relabel: loop, done, ValueError
    \* density_matrix_a / rho_b_pbasis
    e_vec,        \* coefficient vector: Gaussian integers <<re, im>>, each the
                  \* coefficient of the code multiplied by sqrt(scale)
    scale,        \* the common denominator: products of two coefficients, and so
                  \* the cells and the trace, are Gaussian integers over scale
    out_a,        \* density_matrix_a: call, returned, ValueError, TypeError, IndexError
    den_trace_a,  \* the trace density_matrix_a computed (times scale), if any
    density_mat_a,  \* the matrix density_matrix_a returned (times scale)
    out_b,        \* rho_b_pbasis: call, returned, ValueError, IndexError
    tr_rho,       \* the trace rho_b_pbasis computed (times scale), if any
    rho_b,        \* the matrix rho_b_pbasis returned (times scale)
    warned_b,     \* rho_b_pbasis printed its warning
    \* diagonalize
    h_shape,      \* h.shape[0]: h is a square matrix of this size
    w,            \* the eigenvalues eig returned: complex <<re, im>>, 0-based
    vr,           \* the matrix eig returned: vr[row][col], column i paired with w[i]
    index,        \* eigenvalues.argsort()
    eigenvalues,  \* the local variable eigenvalues, returned at the end
    eigenvectors, \* the local variable eigenvectors, returned at the end
    dpc           \* position of diagonalize: eig, real, reorder, done

hamVars == <<ndims, pos_states, n_processes, ham, written, procs, mpc, mi>>

enumVars == <<lat, del_pos, epc, ret>>

relVars == <<e_states, lat_a, nol_b, x, dump, relabelled_states, ri, rpc>>

rhoVars == <<e_vec, scale, out_a, den_trace_a, density_mat_a, out_b, tr_rho, rho_b, warned_b>>

diagVars == <<h_shape, w, vr, index, eigenvalues, eigenvectors, dpc>>

notHam == <<enumVars, relVars, rhoVars, diagVars>>

notEnum == <<hamVars, relVars, rhoVars, diagVars>>

notRel == <<hamVars, enumVars, rhoVars, diagVars>>

notRho == <<hamVars, enumVars, relVars, diagVars>>

vars == <<nop, hamVars, enumVars, relVars, rhoVars, diagVars>>

----------------------------------------------------------------------------
(* Helpers for sequences and sets of labels. *)

Range(s) == {s[i] : i \in 1..Len(s)}

RECURSIVE SumSeq(_)
SumSeq(s) == IF s = <<>> THEN 0 ELSE Head(s) + SumSeq(Tail(s))

RECURSIVE SumSet(_)
SumSet(S) == IF S = {} THEN 0
             ELSE LET e == CHOOSE y \in S : TRUE IN e + SumSet(S \ {e})

Abs(v) == IF v < 0 THEN -v ELSE v

(* The increasing sequence of the elements of a set of integers. *)
RECURSIVE SortedSeq(_)
SortedSeq(S) == IF S = {} THEN <<>>
                ELSE LET m == CHOOSE y \in S : \A z \in S : y <= z
                     IN <<m>> \o SortedSeq(S \ {m})

(* Prepend e to every sequence of a sequence of sequences. *)
ConsAll(e, ss) == [i \in 1..Len(ss) |-> <<e>> \o ss[i]]

(* itertools.combinations(seq, r): the r-length subsequences of seq, in     *)
(* lexicographic order of the positions.                                    *)
RECURSIVE combinations(_, _)
combinations(seq, r) ==
    IF r = 0 THEN << <<>> >>
    ELSE IF Len(seq) < r THEN <<>>
    ELSE ConsAll(Head(seq), combinations(Tail(seq), r - 1))
         \o combinations(Tail(seq), r)

----------------------------------------------------------------------------
(* np.arange(first, stop): the array first, first+1, .., stop-1.            *)
arange(first, stop) == [i \in 1..(stop - first) |-> first + i - 1]

(* np.delete(arr, obj): arr without the elements at the 0-based indices obj. *)
np_delete(arr, obj) ==
    LET keep == SortedSeq({i \in 0..(Len(arr) - 1) : i \notin Range(obj)})
    IN [n \in 1..Len(keep) |-> arr[keep[n] + 1]]

(* An optional array argument: None, or the array arr.                     *)
None == [is_none |-> TRUE, arr |-> <<>>]

Array(a) == [is_none |-> FALSE, arr |-> a]

(* del_pos - 1 on an array: every element less one.                         *)
MinusOne(a) == [i \in 1..Len(a) |-> a[i] - 1]

(* position_states(lat, nop, del_pos): the (states, count) it returns.      *)
(* The positions taken as 0-based indices (the - 1 forgotten).              *)
position_statesNoShift(lattice, n, dp) ==
    LET st == IF dp.is_none THEN combinations(lattice, n)
              ELSE combinations(np_delete(lattice, dp.arr), n)
    IN [states |-> st, count |-> Len(st)]

position_states(lattice, n, dp) ==
    LET st == IF dp.is_none THEN combinations(lattice, n)
              ELSE combinations(np_delete(lattice, MinusOne(dp.arr)), n)
    IN [states |-> st, count |-> Len(st)]

(* eigenstates_lattice(lat, nop, lat_del_pos) of Main.py.                   *)
eigenstates_lattice(lattice, n, dp) ==
    LET st == IF Len(dp.arr) # 0
              THEN combinations(np_delete(lattice, MinusOne(dp.arr)), n)
              ELSE combinations(lattice, n)
    IN [states |-> st, count |-> Len(st)]

(* np.intersect1d(a, b): the common elements (sorted, unique), as a set.    *)
intersect1d(a, b) == Range(a) \cap Range(b)

(* The two horizontal branches of _hamiltonian (the elif conditions), on    *)
(* the label sums of state j, state k and their common labels.              *)
(* Third branch with the wrong edge residue (0 instead of 1).               *)
HorizontalHopWrongEdge(j_sum, k_sum, c_sum, nd) ==
    \/ (k_sum - j_sum) = 1 /\ ~((j_sum - c_sum) % nd = 0)
    \/ (j_sum - k_sum) = 1 /\ ~((j_sum - c_sum) % nd = 0)

HorizontalHop(j_sum, k_sum, c_sum, nd) ==
    \/ (k_sum - j_sum) = 1 /\ ~((j_sum - c_sum) % nd = 0)
    \/ (j_sum - k_sum) = 1 /\ ~((j_sum - c_sum) % nd = 1)

(* The body of _hamiltonian's inner loop: the value stored in ham[j, k].    *)
(* Without the test on the number of common labels.                         *)
HamEntryNoSizeTest(sj, sk, nd, np) ==
    LET c == intersect1d(sj, sk)
        c_sum == SumSet(c)
        j_sum == SumSeq(sj)
        k_sum == SumSeq(sk)
    IN IF Abs(j_sum - k_sum) = nd THEN 1
       ELSE IF HorizontalHop(j_sum, k_sum, c_sum, nd) THEN 1
       ELSE 0

HamEntry(sj, sk, nd, np) ==
    LET c == intersect1d(sj, sk)
        c_sum == SumSet(c)
        c_size == Cardinality(c)
        j_sum == SumSeq(sj)
        k_sum == SumSeq(sk)
    IN IF c_size = np - 1
       THEN IF Abs(j_sum - k_sum) = nd THEN 1
            ELSE IF HorizontalHop(j_sum, k_sum, c_sum, nd) THEN 1
            ELSE 0
       ELSE 0

(* distribute(n_items, n_processes, i): the (start, stop) of process i.     *)
(* Without the remainder given to the last process.                        *)
distributeNoRemainder(n_items, n_proc, i) ==
    LET items_per_process == n_items \div n_proc
    IN <<i * items_per_process, items_per_process * (i + 1)>>

(* Every process but the first starts one row early.                        *)
distributeOverlap(n_items, n_proc, i) ==
    LET items_per_process == n_items \div n_proc
        start == IF i > 0 /\ i * items_per_process > 0
                 THEN i * items_per_process - 1 ELSE i * items_per_process
        stop == IF i = n_proc - 1 THEN n_items
                ELSE items_per_process * (i + 1)
    IN <<start, stop>>

distribute(n_items, n_proc, i) ==
    LET items_per_process == n_items \div n_proc
        start == i * items_per_process
        stop == IF i = n_proc - 1 THEN n_items
                ELSE items_per_process * (i + 1)
    IN <<start, stop>>

nos == Len(pos_states)

Rows == 0..(nos - 1)

Cells == Rows \X Rows

ProcIds == 0..(n_processes - 1)

----------------------------------------------------------------------------
(* hamiltonian_parallel and its worker processes.                           *)

(* The lattices handed to hamiltonian_parallel: increasing arrays of at     *)
(* most MaxSites labels of the nd x nd lattice 1..nd^2.                     *)
Lattices(nd) ==
    {SortedSeq(S) : S \in {T \in SUBSET (1..(nd * nd)) : Cardinality(T) <= MaxSites}}

(* The variables of the enumerator when it is not the routine under study.  *)
EnumIdle == lat = <<>> /\ del_pos = None /\ epc = "idle" /\ ret = <<>>

(* The variables of relabel when it is not the routine under study.         *)
RelIdle ==
    /\ e_states = <<>> /\ lat_a = <<>> /\ nol_b = 0 /\ x = <<>> /\ dump = <<>>
    /\ relabelled_states = <<>> /\ ri = 0 /\ rpc = "idle"

(* The variables of the density matrices when they are not under study.     *)
RhoIdle ==
    /\ e_vec = <<>> /\ scale = 1
    /\ out_a = "idle" /\ den_trace_a = <<>> /\ density_mat_a = <<>>
    /\ out_b = "idle" /\ tr_rho = <<>> /\ rho_b = <<>> /\ warned_b = FALSE

(* The variables of diagonalize when it is not the routine under study.     *)
DiagIdle ==
    /\ h_shape = 0 /\ w = <<>> /\ vr = <<>> /\ index = <<>>
    /\ eigenvalues = <<>> /\ eigenvectors = <<>> /\ dpc = "idle"

InitHam ==
    /\ DiagIdle
    /\ EnumIdle
    /\ RelIdle
    /\ RhoIdle
    /\ ndims \in 1..MaxDims
    /\ nop \in 0..MaxNop
    /\ n_processes \in 1..MaxProcs
    /\ \E lattice \in Lattices(ndims) : pos_states = position_states(lattice, nop, None).states
    /\ ham = [j \in Rows |-> [k \in Rows |-> 0]]
    /\ written = [j \in Rows |-> <<>>]
    /\ procs = [i \in ProcIds |-> [st |-> "new", j |-> 0, stop |-> 0]]
    /\ mpc = "spawn"
    /\ mi = 0

(* First loop of hamiltonian_parallel: create and start process mi. A       *)
(* process whose range(start, stop) is empty has nothing to do but exit.    *)
StartProcess ==
    /\ mpc = "spawn"
    /\ mi < n_processes
    /\ LET se == distribute(nos, n_processes, mi)
       IN procs' = [procs EXCEPT ![mi] =
                       [st |-> IF se[1] < se[2] THEN "run" ELSE "exit",
                        j |-> se[1], stop |-> se[2]]]
    /\ mi' = mi + 1
    /\ UNCHANGED <<nop, notHam, ndims, pos_states, n_processes, ham, written, mpc>>

(* The first loop is over: go on to the joins.                              *)
AllStarted ==
    /\ mpc = "spawn"
    /\ mi = n_processes
    /\ mpc' = "join"
    /\ mi' = 0
    /\ UNCHANGED <<nop, notHam, ndims, pos_states, n_processes, ham, written, procs>>

(* One iteration of _hamiltonian's outer loop in process i: row j of ham.   *)
(* After the last row of its range the function returns and the process     *)
(* exits.                                                                   *)
HamiltonianRow(i) ==
    /\ procs[i].st = "run"
    /\ procs[i].j < procs[i].stop
    /\ LET j == procs[i].j
       IN /\ ham' = [ham EXCEPT ![j] =
                        [k \in Rows |-> HamEntry(pos_states[j + 1], pos_states[k + 1], ndims, nop)]]
          /\ written' = [written EXCEPT ![j] = Append(@, i)]
          /\ procs' = [procs EXCEPT ![i].j = j + 1,
                                     ![i].st = IF j + 1 < procs[i].stop
                                               THEN "run" ELSE "exit"]
    /\ UNCHANGED <<nop, notHam, ndims, pos_states, n_processes, mpc, mi>>

(* Process i dies before it has written all its rows (an exception in the   *)
(* target, a kill): it ends with a non-zero exit code.                      *)
HamiltonianFail(i) ==
    /\ procs[i].st = "run"
    /\ procs[i].j < procs[i].stop
    /\ procs' = [procs EXCEPT ![i].st = "fail"]
    /\ UNCHANGED <<nop, notHam, ndims, pos_states, n_processes, ham, written, mpc, mi>>

(* Second loop: join() returns once the process has ended, whatever its     *)
(* exit code; the code does not look at it.                                 *)
JoinProcess ==
    /\ mpc = "join"
    /\ mi < n_processes
    /\ procs[mi].st \in {"exit", "fail"}
    /\ mi' = mi + 1
    /\ UNCHANGED <<nop, notHam, ndims, pos_states, n_processes, ham, written, procs, mpc>>

(* return ham *)
ReturnHam ==
    /\ mpc = "join"
    /\ mi = n_processes
    /\ mpc' = "done"
    /\ UNCHANGED <<nop, notHam, ndims, pos_states, n_processes, ham, written, procs, mi>>

Next ==
    \/ StartProcess
    \/ AllStarted
    \/ \E i \in ProcIds : HamiltonianRow(i)
    \/ JoinProcess
    \/ ReturnHam

Spec == InitHam /\ [][Next]_vars

(* The same with processes that may fail. *)
NextFault ==
    \/ StartProcess
    \/ AllStarted
    \/ \E i \in ProcIds : HamiltonianRow(i)
    \/ JoinProcess
    \/ ReturnHam
    \/ \E i \in ProcIds : HamiltonianFail(i)

SpecFault == InitHam /\ [][NextFault]_vars

----------------------------------------------------------------------------
(* Properties of the Hamiltonian assembly.                                  *)

Returned == mpc = "done"

State(j) == pos_states[j + 1]

(* C1: the finished matrix is symmetric, H[j][k] = H[k][j], with a zero     *)
(* diagonal, H[j][j] = 0; and the horizontal-hop test answers the same for  *)
(* the pair (j, k) as for (k, j).                                           *)
C1_SymmetricZeroDiagonal ==
    Returned =>
        /\ \A j \in Rows : \A k \in Rows : ham[j][k] = ham[k][j]
        /\ \A j \in Rows : ham[j][j] = 0
        /\ \A j \in Rows : \A k \in Rows :
              LET c == intersect1d(State(j), State(k))
              IN Cardinality(c) = nop - 1 =>
                    (HorizontalHop(SumSeq(State(j)), SumSeq(State(k)), SumSet(c), ndims)
                     <=> HorizontalHop(SumSeq(State(k)), SumSeq(State(j)), SumSet(c), ndims))

(* A finished matrix with a horizontal hop in it, and a pair of states that *)
(* differ by the two labels on either side of a row boundary.               *)
C1_Witness ==
    /\ Returned
    /\ ndims >= 2
    /\ \E j \in Rows : \E k \in Rows :
          /\ ham[j][k] = 1
          /\ Abs(SumSeq(State(j)) - SumSeq(State(k))) = 1
    /\ \E j \in Rows : \E k \in Rows :
          /\ ham[j][k] = 0
          /\ Cardinality(intersect1d(State(j), State(k))) = nop - 1
          /\ SumSeq(State(j)) - SumSeq(State(k)) = 1

(* Row and column (0-based) of label a on the row-major nd x nd lattice.    *)
LatRow(a, nd) == (a - 1) \div nd

LatCol(a, nd) == (a - 1) % nd

(* a and b are nearest neighbours on the lattice. *)
NearestNeighbours(a, b, nd) ==
    \/ LatCol(a, nd) = LatCol(b, nd) /\ Abs(LatRow(a, nd) - LatRow(b, nd)) = 1
    \/ LatRow(a, nd) = LatRow(b, nd) /\ Abs(LatCol(a, nd) - LatCol(b, nd)) = 1

Min(a, b) == IF a < b THEN a ELSE b

(* The hop of the claim: vertical, or horizontal inside one row.            *)
ClaimedHop(a, b, nd) ==
    \/ Abs(a - b) = nd
    \/ Abs(a - b) = 1 /\ Min(a, b) % nd # 0

(* States sj and sk share nop-1 labels and their unshared labels hop.       *)
SingleHop(sj, sk, nd, np) ==
    /\ Cardinality(Range(sj) \cap Range(sk)) = np - 1
    /\ \E a \in Range(sj) \ Range(sk) : \E b \in Range(sk) \ Range(sj) :
          ClaimedHop(a, b, nd) /\ NearestNeighbours(a, b, nd)

(* C2: entry (j, k) of the assembled matrix is 1 exactly when the two       *)
(* states share nop-1 labels and the unshared labels a, b are nearest       *)
(* neighbours (|a-b| = ndims, or |a-b| = 1 with the smaller one not the     *)
(* last site of its row); every other entry is 0.                           *)
C2_EntryIsSingleHop ==
    Returned =>
        \A j \in Rows : \A k \in Rows :
            /\ ham[j][k] \in {0, 1}
            /\ ham[j][k] = 1 <=> SingleHop(State(j), State(k), ndims, nop)
            /\ \A a \in Range(State(j)) : \A b \in Range(State(k)) :
                  ClaimedHop(a, b, ndims) <=> NearestNeighbours(a, b, ndims)

(* A finished matrix of two-particle states with a vertical hop, a          *)
(* horizontal hop, and a zero entry for a hop across a row boundary.        *)
C2_Witness ==
    /\ Returned
    /\ nop = 2
    /\ \E j \in Rows : \E k \in Rows :
          ham[j][k] = 1 /\ Abs(SumSeq(State(j)) - SumSeq(State(k))) = ndims
    /\ \E j \in Rows : \E k \in Rows :
          ham[j][k] = 1 /\ Abs(SumSeq(State(j)) - SumSeq(State(k))) = 1
    /\ \E j \in Rows : \E k \in Rows :
          /\ ham[j][k] = 0
          /\ Cardinality(intersect1d(State(j), State(k))) = nop - 1
          /\ Abs(SumSeq(State(j)) - SumSeq(State(k))) = 1

(* The processes that wrote cell c = (j, k): the inner loop of row j writes *)
(* every cell of the row.                                                   *)
WritersOf(c) == written[c[1]]

(* The row range [start, stop) of process i. *)
RowsOf(i) ==
    LET se == distribute(nos, n_processes, i) IN {j \in Rows : se[1] <= j /\ j < se[2]}

(* The ranges distribute hands out are contiguous, disjoint and cover       *)
(* 0..nos-1.                                                                *)
RangesPartitionRows ==
    /\ distribute(nos, n_processes, 0)[1] = 0
    /\ distribute(nos, n_processes, n_processes - 1)[2] = nos
    /\ \A i \in ProcIds :
          /\ distribute(nos, n_processes, i)[1] <= distribute(nos, n_processes, i)[2]
          /\ i + 1 \in ProcIds =>
                distribute(nos, n_processes, i)[2] = distribute(nos, n_processes, i + 1)[1]
    /\ \A i \in ProcIds : \A h \in ProcIds : i # h => RowsOf(i) \cap RowsOf(h) = {}
    /\ UNION {RowsOf(i) : i \in ProcIds} = Rows

(* C3: the row ranges of processes 0..p-1 are contiguous, pairwise disjoint *)
(* and cover exactly 0..nos-1 (a property of the inputs, stated where       *)
(* hamiltonian_parallel starts); under any interleaving no cell is written  *)
(* by two processes, each process writes only cells of its own rows, and in *)
(* the finished matrix every cell has been written exactly once.            *)
C3_DisjointCover ==
    /\ (mpc = "spawn" /\ mi = 0) => RangesPartitionRows
    /\ \A j \in Rows :
          /\ Len(written[j]) <= 1
          /\ \A i \in Range(written[j]) :
                /\ distribute(nos, n_processes, i)[1] <= j
                /\ j < distribute(nos, n_processes, i)[2]
    /\ Returned => \A c \in Cells : Len(WritersOf(c)) = 1

(* A finished run where the rows do not divide evenly among the processes,  *)
(* the last process having taken the remainder.                             *)
C3_Witness ==
    /\ Returned
    /\ n_processes >= 2
    /\ nos > n_processes
    /\ nos % n_processes # 0
    /\ \E c \in Cells : WritersOf(c) = <<n_processes - 1>> /\ c[1] = nos - 1

(* The matrix one process produces over the whole row range 0..nos-1.       *)
SingleWorkerHam ==
    [j \in Rows |-> [k \in Rows |-> HamEntry(State(j), State(k), ndims, nop)]]

(* C4: whatever the number of processes and their interleaving, the         *)
(* returned matrix is the one a single process produces over rows 0..nos-1. *)
C4_SameAsSingleWorker == Returned => ham = SingleWorkerHam

(* A finished run of several processes, each having written rows, with a    *)
(* hop in the last row.                                                     *)
C4_Witness ==
    /\ Returned
    /\ n_processes >= 2
    /\ \A i \in ProcIds : \E c \in Cells : WritersOf(c) = <<i>>
    /\ \E c \in Cells : c[1] = nos - 1 /\ ham[c[1]][c[2]] = 1

(* C5: if a process fails before it has written all its rows, the assembly  *)
(* does not return the matrix to the caller.                                *)
C5_FailedWorkerAborts ==
    ~(Returned /\ \E i \in ProcIds : procs[i].st = "fail")

----------------------------------------------------------------------------
(* The state enumerator: position_states and Main.py's eigenstates_lattice. *)

(* The variables of the assembly when it is not the routine under study.    *)
HamIdle ==
    /\ ndims = 1 /\ pos_states = <<>> /\ n_processes = 1 /\ ham = <<>>
    /\ written = <<>> /\ procs = <<>> /\ mpc = "idle" /\ mi = 0

(* Arrays of at most MaxDel distinct 1-based positions of an array of n.    *)
DelArrays(n) ==
    {Array(SortedSeq(S)) : S \in {T \in SUBSET (1..n) : Cardinality(T) <= MaxDel}}

InitEnum ==
    /\ HamIdle
    /\ DiagIdle
    /\ RelIdle
    /\ RhoIdle
    /\ \/ \E nsa \in 1..MaxNsa :
             /\ lat = arange(1, nsa * nsa + 1)
             /\ nop \in 0..MaxNop
             /\ del_pos \in {None} \cup DelArrays(nsa * nsa)
       \/ /\ lat = arange(1, SystemNsa * SystemNsa + 1)
          /\ nop = SystemNop
          /\ del_pos = Array(SystemLatDelPos)
    /\ epc = "call"
    /\ ret = <<>>

CallPositionStates ==
    /\ epc = "call"
    /\ ret' = position_states(lat, nop, del_pos)
    /\ epc' = "position_states"
    /\ UNCHANGED <<nop, notEnum, lat, del_pos>>

CallEigenstatesLattice ==
    /\ epc = "call"
    /\ ~del_pos.is_none
    /\ ret' = eigenstates_lattice(lat, nop, del_pos)
    /\ epc' = "eigenstates_lattice"
    /\ UNCHANGED <<nop, notEnum, lat, del_pos>>

NextEnum ==
    \/ CallPositionStates
    \/ CallEigenstatesLattice

SpecEnum == InitEnum /\ [][NextEnum]_vars

(* The binomial coefficient C(n, k), by Pascal's rule.                      *)
RECURSIVE Binomial(_, _)
Binomial(n, k) ==
    IF k < 0 \/ k > n THEN 0
    ELSE IF k = 0 \/ k = n THEN 1
    ELSE Binomial(n - 1, k - 1) + Binomial(n - 1, k)

(* The labels left after deletion: the label at 1-based position p of the   *)
(* full lattice array 1..nsa^2 is p.                                        *)
AvailableSites ==
    IF del_pos.is_none THEN Range(lat) ELSE Range(lat) \ Range(del_pos.arr)

StrictlyIncreasing(s) == \A i \in 1..(Len(s) - 1) : s[i] < s[i + 1]

(* C6: the enumerator returns exactly C(available_sites, nop) states, each  *)
(* a strictly increasing tuple of nop labels from the non-deleted set, no   *)
(* state twice, the count being the length of the sequence; 220 states for  *)
(* the 4x4 lattice with 3 particles and deleted positions {3, 4, 9, 13}.    *)
C6_EnumeratesCombinations ==
    epc \in {"position_states", "eigenstates_lattice"} =>
        /\ ret.count = Binomial(Cardinality(AvailableSites), nop)
        /\ ret.count = Len(ret.states)
        /\ \A i \in 1..Len(ret.states) :
              /\ Len(ret.states[i]) = nop
              /\ StrictlyIncreasing(ret.states[i])
              /\ Range(ret.states[i]) \subseteq AvailableSites
        /\ Cardinality(Range(ret.states)) = Len(ret.states)
        /\ (Len(lat) = 16 /\ nop = 3 /\ del_pos = Array(<<3, 4, 9, 13>>)) => ret.count = 220

(* The enumerator has returned the 220 states of the 4x4 example, none of   *)
(* them holding a deleted label.                                            *)
C6_Witness ==
    /\ epc = "position_states"
    /\ Len(lat) = 16
    /\ del_pos = Array(<<3, 4, 9, 13>>)
    /\ ret.count = 220
    /\ ret.states[1] = <<1, 2, 5>>

----------------------------------------------------------------------------
(* ncr, sum_ncr and relabel.                                                *)

RECURSIVE factorial(_)
factorial(n) == IF n <= 0 THEN 1 ELSE n * factorial(n - 1)

(* math.factorial raises ValueError on a negative argument: ncr(n, r)       *)
(* raises when n, r or n - r is negative.                                   *)
ncrRaises(n, r) == n < 0 \/ r < 0 \/ n - r < 0

(* ncr(n, r) = f(n) // (f(r) * f(n - r)), where it does not raise.          *)
ncr(n, r) == factorial(n) \div (factorial(r) * factorial(n - r))

(* sum_ncr(n, k) = sum(ncr(n, r) for r in range(k)).                        *)
sum_ncrRaises(n, k) == \E r \in 0..(k - 1) : ncrRaises(n, r)

RECURSIVE sum_ncr(_, _)
sum_ncr(n, k) == IF k <= 0 THEN 0 ELSE sum_ncr(n, k - 1) + ncr(n, k - 1)

(* comm = [k for k in state if k in lat_a] *)
Comm(state, la) == SelectSeq(state, LAMBDA k : k \in Range(la))

(* One iteration of relabel's for loop on the loop state                    *)
(* rs = [x, dump, out, err], for the state `state`.                         *)
(* The cyclic counter never reset.                                          *)
RelabelStepNoReset(rs, state, la, np, nb) ==
    LET comm == Comm(state, la)
        n == Len(comm)
        x1 == [rs.x EXCEPT ![1][n] = @ + 1]
        fresh == comm \notin Range(rs.dump)
        x2 == IF fresh THEN [x1 EXCEPT ![0][n] = @ + 1] ELSE x1
    IN [x |-> x2,
        dump |-> IF fresh THEN Append(rs.dump, comm) ELSE rs.dump,
        out |-> Append(rs.out, <<x2[0][n], n, x2[1][n]>>),
        err |-> ncrRaises(nb, np - n)]

RelabelStep(rs, state, la, np, nb) ==
    LET comm == Comm(state, la)
        n == Len(comm)
        x1 == [rs.x EXCEPT ![1][n] = @ + 1]
        fresh == comm \notin Range(rs.dump)
        x2 == IF fresh THEN [x1 EXCEPT ![0][n] = @ + 1] ELSE x1
        raises == ncrRaises(nb, np - n)
        x3 == IF ~raises /\ x2[1][n] = ncr(nb, np - n)
              THEN [x2 EXCEPT ![1][n] = 0] ELSE x2
    IN [x |-> x3,
        dump |-> IF fresh THEN Append(rs.dump, comm) ELSE rs.dump,
        out |-> Append(rs.out, <<x2[0][n], n, x2[1][n]>>),
        err |-> raises]

(* x = np.zeros(shape=(2, nop + 1)); relabelled_states, dump = [], []       *)
RelabelStart(np) ==
    [x |-> [r \in 0..1 |-> [n \in 0..np |-> 0]], dump |-> <<>>, out |-> <<>>,
     err |-> FALSE]

(* The table relabel returns: the loop run over all of states (the table    *)
(* so far, with err set, if ncr raised on the way).                         *)
RECURSIVE RelabelLoop(_, _, _, _, _)
RelabelLoop(rs, states, la, np, nb) ==
    IF states = <<>> \/ rs.err THEN rs
    ELSE RelabelLoop(RelabelStep(rs, Head(states), la, np, nb), Tail(states), la, np, nb)

(* The inputs of relabel: the full state space of the labels 1..nol, any    *)
(* array of A labels among them, and nol_b the number of the other labels.  *)
RelabelInputs ==
    \E nol \in 1..MaxLabels : \E A \in SUBSET (1..nol) :
        /\ nop \in 0..MaxNop
        /\ e_states = position_states(arange(1, nol + 1), nop, None).states
        /\ lat_a = SortedSeq(A)
        /\ nol_b = nol - Cardinality(A)

InitRelabel ==
    /\ HamIdle
    /\ DiagIdle
    /\ EnumIdle
    /\ RhoIdle
    /\ RelabelInputs
    /\ x = RelabelStart(nop).x
    /\ dump = <<>>
    /\ relabelled_states = <<>>
    /\ ri = 0
    /\ rpc = "loop"

(* One iteration of the for loop of relabel. *)
RelabelIteration ==
    /\ rpc = "loop"
    /\ ri < Len(e_states)
    /\ LET rs == RelabelStep([x |-> x, dump |-> dump, out |-> relabelled_states,
                              err |-> FALSE],
                             e_states[ri + 1], lat_a, nop, nol_b)
       IN /\ x' = rs.x
          /\ dump' = rs.dump
          /\ relabelled_states' = rs.out
          /\ rpc' = IF rs.err THEN "ValueError" ELSE "loop"
    /\ ri' = ri + 1
    /\ UNCHANGED <<nop, notRel, e_states, lat_a, nol_b>>

(* return np.array(relabelled_states) *)
RelabelReturn ==
    /\ rpc = "loop"
    /\ ri = Len(e_states)
    /\ rpc' = "done"
    /\ UNCHANGED <<nop, notRel, e_states, lat_a, nol_b, x, dump, relabelled_states, ri>>

NextRelabel ==
    \/ RelabelIteration
    \/ RelabelReturn

SpecRelabel == InitRelabel /\ [][NextRelabel]_vars

(* The A-pattern of the i-th state (1-based) of the state space.            *)
PatternOf(i) == Comm(e_states[i], lat_a)

(* The distinct A-patterns of n particles in the whole state space.         *)
PatternsWith(n) ==
    {PatternOf(i) : i \in {h \in 1..Len(e_states) : Len(PatternOf(h)) = n}}

(* C7: each emitted a_index lies in 1..(number of distinct A-patterns with  *)
(* that n), each emitted b_index in 1..C(nol_b, nop-n); after every         *)
(* processed state the counter x[1][n] is back at 0 whenever it reached     *)
(* C(nol_b, nop-n), so it never exceeds that bound.                         *)
C7_RelabelIndexBounds ==
    rpc \in {"loop", "done"} =>
        /\ \A i \in 1..Len(relabelled_states) :
              LET r == relabelled_states[i]
              IN /\ r[2] = Len(PatternOf(i))
                 /\ r[1] \in 1..Cardinality(PatternsWith(r[2]))
                 /\ r[3] \in 1..Binomial(nol_b, nop - r[2])
        /\ \A n \in 0..nop :
              /\ x[1][n] <= Binomial(nol_b, nop - n)
              /\ x[1][n] = 0 \/ x[1][n] < Binomial(nol_b, nop - n)
              /\ x[0][n] <= Cardinality(PatternsWith(n))

(* relabel has returned a table in which a cyclic index reached its bound   *)
(* (at least 2) and started again at 1 for a later state of the same n.     *)
C7_Witness ==
    /\ rpc = "done"
    /\ \E i \in 1..Len(relabelled_states) : \E h \in 1..Len(relabelled_states) :
          /\ i < h
          /\ relabelled_states[i][2] = relabelled_states[h][2]
          /\ relabelled_states[i][3] = Binomial(nol_b, nop - relabelled_states[i][2])
          /\ relabelled_states[i][3] >= 2
          /\ relabelled_states[h][3] = 1
          /\ relabelled_states[h][1] >= 2

(* The 1-based index of the first state with the A-pattern of state i.      *)
FirstAppearance(i) ==
    CHOOSE h \in 1..i :
        /\ PatternOf(h) = PatternOf(i)
        /\ \A g \in 1..(h - 1) : PatternOf(g) # PatternOf(i)

(* Rank of the A-pattern of state i among the distinct A-patterns with the  *)
(* same number of particles, in order of first appearance.                  *)
PatternRank(i) ==
    Cardinality({FirstAppearance(h) : h \in
        {g \in 1..Len(e_states) :
            /\ Len(PatternOf(g)) = Len(PatternOf(i))
            /\ FirstAppearance(g) <= FirstAppearance(i)}})

(* C8: the a_index emitted for a state is the rank of its A-pattern among   *)
(* the distinct A-patterns with the same a_count, in order of first         *)
(* appearance; so states with the same A-pattern get the same a_index, and  *)
(* states with the same a_count and different A-patterns different ones.    *)
C8_AIndexIsPatternRank ==
    rpc \in {"loop", "done"} =>
        /\ \A i \in 1..Len(relabelled_states) :
              relabelled_states[i][1] = PatternRank(i)
        /\ \A i \in 1..Len(relabelled_states) : \A h \in 1..Len(relabelled_states) :
              relabelled_states[i][2] = relabelled_states[h][2] =>
                 (relabelled_states[i][1] = relabelled_states[h][1]
                  <=> PatternOf(i) = PatternOf(h))

----------------------------------------------------------------------------
(* density_matrix_a and rho_b_pbasis.                                       *)
(*                                                                          *)
(* Complex numbers are pairs <<re, im>> of integers.  A coefficient of the  *)
(* code is e_vec[i] / sqrt(scale), so that vectors of norm 1 with several   *)
(* non-zero coefficients exist; a product conj(e_vec[j]) * e_vec[i] of the  *)
(* code is the Gaussian integer below divided by scale.  The arithmetic is  *)
(* exact: the rounding of the floating-point sums is not modelled.          *)

CAdd(a, b) == <<a[1] + b[1], a[2] + b[2]>>

CMul(a, b) == <<a[1] * b[1] - a[2] * b[2], a[1] * b[2] + a[2] * b[1]>>

CConj(a) == <<a[1], -a[2]>>

(* np.vdot(a, b) on scalars: conj(a) * b.                                   *)
vdot(a, b) == CMul(CConj(a), b)

(* rho[m][n] += np.vdot(e_vec[j], e_vec[i]) over the pairs (i, j) of P      *)
(* (1-based state indices): the value accumulated in one cell.              *)
RECURSIVE Accumulate(_, _)
Accumulate(P, ev) ==
    IF P = {} THEN <<0, 0>>
    ELSE LET q == CHOOSE r \in P : TRUE
         IN CAdd(vdot(ev[q[2]], ev[q[1]]), Accumulate(P \ {q}, ev))

(* np.trace(mat.real): the sum of the real parts of the diagonal.           *)
RECURSIVE TraceReal(_, _)
TraceReal(mat, d) == IF d = 0 THEN 0 ELSE TraceReal(mat, d - 1) + mat[d - 1][d - 1][1]

(* mt.fabs(trace - 1.0) > 1.0e-1, the trace being tr / sc.                   *)
TraceOff(tr, sc) == 10 * Abs(tr - sc) > sc

(* The row / column of state i in density_matrix_a and in rho_b_pbasis.     *)
(* The offset of the particle-count class left out.                         *)
IndexANoOffset(lab, i, na) == lab[i][1] - 1

IndexA(lab, i, na) == lab[i][1] + sum_ncr(na, lab[i][2]) - 1

IndexB(lab, i, nb, np) == lab[i][3] + sum_ncr(nb, np - lab[i][2]) - 1

(* The if of the double loop of density_matrix_a: states i and j have the   *)
(* same particle count and the same b_index.                                *)
SamePartA(lab, i, j) == lab[i][2] = lab[j][2] /\ lab[i][3] = lab[j][3]

(* The if of the double loop of rho_b_pbasis: same particle count and the   *)
(* same a_index.                                                            *)
SamePartB(lab, i, j) == lab[i][2] = lab[j][2] /\ lab[i][1] = lab[j][1]

(* The states (1-based) whose row / column, by the index table idx, is m.   *)
StatesAt(idx, m) == {i \in DOMAIN idx : idx[i] = m}

(* density_matrix_a(label, e_vec, nos, nol_a, nop): how the call ends, the  *)
(* trace it computed (none if it raised before) and the matrix it returns.  *)
(* Cell (m, n) accumulates the pairs (i, j) that pass the if and have rows  *)
(* m and n.  sum_ncr raises ValueError when nop > nol_a; an index beyond    *)
(* the matrix raises IndexError; warnings.warn is called with the trace as  *)
(* its category argument, which raises TypeError (the category must be a    *)
(* Warning subclass).                                                       *)
density_matrix_a(lab, ev, sc, na, np) ==
    IF sum_ncrRaises(na, np + 1)
    THEN [out |-> "ValueError", trace |-> <<>>, mat |-> <<>>]
    ELSE LET dim_a == sum_ncr(na, np + 1)
             idx == [i \in 1..Len(lab) |-> IndexA(lab, i, na)]
             at == [m \in 0..(dim_a - 1) |-> StatesAt(idx, m)]
             mat == [m \in 0..(dim_a - 1) |-> [n \in 0..(dim_a - 1) |->
                        Accumulate({q \in at[m] \X at[n] : SamePartA(lab, q[1], q[2])}, ev)]]
             den_trace == TraceReal(mat, dim_a)
         IN IF \E i \in 1..Len(lab) : idx[i] >= dim_a
            THEN [out |-> "IndexError", trace |-> <<>>, mat |-> <<>>]
            ELSE IF TraceOff(den_trace, sc)
            THEN [out |-> "TypeError", trace |-> <<den_trace>>, mat |-> <<>>]
            ELSE [out |-> "returned", trace |-> <<den_trace>>, mat |-> mat]

(* rho_b_pbasis(label, e_vec, nos, nol_b, nop): how the call ends, the      *)
(* trace it computed, the matrix it returns and whether it printed the      *)
(* warning.                                                                 *)
rho_b_pbasis(lab, ev, sc, nb, np) ==
    IF sum_ncrRaises(nb, np + 1)
    THEN [out |-> "ValueError", trace |-> <<>>, mat |-> <<>>, warned |-> FALSE]
    ELSE LET dim_b == sum_ncr(nb, np + 1)
             idx == [i \in 1..Len(lab) |-> IndexB(lab, i, nb, np)]
             at == [m \in 0..(dim_b - 1) |-> StatesAt(idx, m)]
             mat == [m \in 0..(dim_b - 1) |-> [n \in 0..(dim_b - 1) |->
                        Accumulate({q \in at[m] \X at[n] : SamePartB(lab, q[1], q[2])}, ev)]]
             tr == TraceReal(mat, dim_b)
         IN IF \E i \in 1..Len(lab) : idx[i] >= dim_b
            THEN [out |-> "IndexError", trace |-> <<>>, mat |-> <<>>, warned |-> FALSE]
            ELSE [out |-> "returned", trace |-> <<tr>>, mat |-> mat,
                  warned |-> TraceOff(tr, sc)]

(* The non-zero coefficients of the vectors tried.                          *)
Coeffs == {<<1, 0>>, <<0, 1>>, <<-1, 0>>}

(* The vectors of length n with at most MaxSupport non-zero coefficients.   *)
Vectors(n) ==
    {v \in [1..n -> Coeffs \cup {<<0, 0>>}] :
        Cardinality({i \in 1..n : v[i] # <<0, 0>>}) <= MaxSupport}

(* The squared norm of the vector (times scale).                            *)
RECURSIVE NormSq(_)
NormSq(v) == IF v = <<>> THEN 0
             ELSE Head(v)[1] * Head(v)[1] + Head(v)[2] * Head(v)[2] + NormSq(Tail(v))

(* relabel has returned the table of a full state space; a vector over the  *)
(* state space is given.                                                    *)
InitRho ==
    /\ HamIdle
    /\ DiagIdle
    /\ EnumIdle
    /\ RelabelInputs
    /\ LET rs == RelabelLoop(RelabelStart(nop), e_states, lat_a, nop, nol_b)
       IN /\ x = rs.x
          /\ dump = rs.dump
          /\ relabelled_states = rs.out
    /\ ri = Len(e_states)
    /\ rpc = "done"
    /\ e_vec \in Vectors(Len(e_states))
    /\ scale \in 1..MaxScale
    /\ out_a = "call" /\ den_trace_a = <<>> /\ density_mat_a = <<>>
    /\ out_b = "call" /\ tr_rho = <<>> /\ rho_b = <<>> /\ warned_b = FALSE

CallDensityMatrixA ==
    /\ out_a = "call"
    /\ \E r \in {density_matrix_a(relabelled_states, e_vec, scale, Len(lat_a), nop)} :
          out_a' = r.out /\ den_trace_a' = r.trace /\ density_mat_a' = r.mat
    /\ UNCHANGED <<nop, notRho, e_vec, scale, out_b, tr_rho, rho_b,
                   warned_b>>

CallRhoBPbasis ==
    /\ out_b = "call"
    /\ \E r \in {rho_b_pbasis(relabelled_states, e_vec, scale, nol_b, nop)} :
          out_b' = r.out /\ tr_rho' = r.trace /\ rho_b' = r.mat /\ warned_b' = r.warned
    /\ UNCHANGED <<nop, notRho, e_vec, scale, out_a, den_trace_a,
                   density_mat_a>>

NextRho ==
    \/ CallDensityMatrixA
    \/ CallRhoBPbasis

SpecRho == InitRho /\ [][NextRho]_vars

(* Cell (m, n) is the complex conjugate of cell (n, m).                     *)
Hermitian(mat) ==
    \A m \in DOMAIN mat : \A n \in DOMAIN mat : mat[m][n] = CConj(mat[n][m])

(* C9: for the relabel table of a full state space and a vector of norm 1,  *)
(* the matrix density_matrix_a and rho_b_pbasis build is Hermitian and its  *)
(* trace is the squared norm of the vector, 1 (within the tolerance).       *)
C9_HermitianUnitTrace ==
    NormSq(e_vec) = scale =>
        /\ out_a = "returned" =>
              /\ Hermitian(density_mat_a)
              /\ den_trace_a = <<NormSq(e_vec)>>
              /\ ~TraceOff(den_trace_a[1], scale)
        /\ out_b = "returned" =>
              /\ Hermitian(rho_b)
              /\ tr_rho = <<NormSq(e_vec)>>
              /\ ~TraceOff(tr_rho[1], scale)

(* C10: when the trace differs from 1 by more than 0.1, both builders only  *)
(* warn and still return the matrix; the call does not end in an error.     *)
C10_TraceWarningNotFatal ==
    /\ (den_trace_a # <<>> /\ TraceOff(den_trace_a[1], scale)) => out_a = "returned"
    /\ (tr_rho # <<>> /\ TraceOff(tr_rho[1], scale)) => (out_b = "returned" /\ warned_b)


----------------------------------------------------------------------------
(* The index blocks of the two density matrices.                            *)

(* The uniform superposition over the state space: every coefficient is     *)
(* 1/sqrt(nos), so every state contributes to its cell.                     *)
Uniform(n) == [i \in 1..n |-> <<1, 0>>]

(* relabel has returned the table of a full state space; the vector given   *)
(* is the uniform superposition.                                           *)
InitUniform ==
    /\ HamIdle
    /\ DiagIdle
    /\ EnumIdle
    /\ RelabelInputs
    /\ LET rs == RelabelLoop(RelabelStart(nop), e_states, lat_a, nop, nol_b)
       IN /\ x = rs.x
          /\ dump = rs.dump
          /\ relabelled_states = rs.out
    /\ ri = Len(e_states)
    /\ rpc = "done"
    /\ e_vec = Uniform(Len(e_states))
    /\ scale = IF Len(e_states) = 0 THEN 1 ELSE Len(e_states)
    /\ out_a = "call" /\ den_trace_a = <<>> /\ density_mat_a = <<>>
    /\ out_b = "call" /\ tr_rho = <<>> /\ rho_b = <<>> /\ warned_b = FALSE

SpecUniform == InitUniform /\ [][NextRho]_vars

(* C(n, 0) + ... + C(n, k - 1): the first index of the block of class k of  *)
(* a sub-lattice of n sites (C by Pascal's rule, 0 beyond n).               *)
RECURSIVE BlockStart(_, _)
BlockStart(n, k) == IF k <= 0 THEN 0 ELSE BlockStart(n, k - 1) + Binomial(n, k - 1)

(* The indices of the block of class k.                                     *)
Block(n, k) == BlockStart(n, k)..(BlockStart(n, k + 1) - 1)

(* C12: for every record (a_index, n, b_index) of the relabel table of a    *)
(* full state space, the index density_matrix_a uses lies in the block of   *)
(* class n of sub-lattice A, the index rho_b_pbasis uses in the block of    *)
(* class nop - n of sub-lattice B; the blocks of different classes are      *)
(* disjoint and lie in 0..dim-1, dim = C(size, 0) + ... + C(size, nop), so  *)
(* records of different classes never share an index, no call ends in an    *)
(* IndexError and a returned matrix has dimension dim.                      *)
C12_IndexBlocks ==
    LET lab == relabelled_states
        nol_a == Len(lat_a)
        dim_a == BlockStart(nol_a, nop + 1)
        dim_b == BlockStart(nol_b, nop + 1)
    IN /\ out_a # "call" =>
             /\ \A i \in 1..Len(lab) :
                   /\ IndexA(lab, i, nol_a) \in Block(nol_a, lab[i][2])
                   /\ IndexA(lab, i, nol_a) \in 0..(dim_a - 1)
             /\ \A i \in 1..Len(lab) : \A j \in 1..Len(lab) :
                   lab[i][2] # lab[j][2] => IndexA(lab, i, nol_a) # IndexA(lab, j, nol_a)
             /\ out_a # "IndexError"
             /\ out_a = "returned" => DOMAIN density_mat_a = 0..(dim_a - 1)
       /\ out_b # "call" =>
             /\ \A i \in 1..Len(lab) :
                   /\ IndexB(lab, i, nol_b, nop) \in Block(nol_b, nop - lab[i][2])
                   /\ IndexB(lab, i, nol_b, nop) \in 0..(dim_b - 1)
             /\ \A i \in 1..Len(lab) : \A j \in 1..Len(lab) :
                   lab[i][2] # lab[j][2] =>
                      IndexB(lab, i, nol_b, nop) # IndexB(lab, j, nol_b, nop)
             /\ out_b # "IndexError"
             /\ out_b = "returned" => DOMAIN rho_b = 0..(dim_b - 1)

(* Both matrices have been returned for a table with three classes          *)
(* (n = 0, 1, 2), the last index of each matrix being used by a record.     *)
C12_Witness ==
    /\ out_a = "returned"
    /\ out_b = "returned"
    /\ \A n \in 0..2 : \E i \in 1..Len(relabelled_states) : relabelled_states[i][2] = n
    /\ \E i \in 1..Len(relabelled_states) :
          IndexA(relabelled_states, i, Len(lat_a)) = BlockStart(Len(lat_a), nop + 1) - 1
    /\ \E i \in 1..Len(relabelled_states) :
          IndexB(relabelled_states, i, nol_b, nop) = BlockStart(nol_b, nop + 1) - 1

----------------------------------------------------------------------------
(* diagonalize: scipy's eig, then an ascending sort of the pairs.           *)

(* The indices of an array of n elements. *)
Indices(n) == 0..(n - 1)

(* eigenvalues.real: the real part of every element.                        *)
real(a) == [i \in DOMAIN a |-> a[i][1]]

(* a.argsort(): the index arrays that put a in ascending order. The sort is *)
(* not a stable one, so equal elements may come in either order.            *)
argsort(a) ==
    {p \in [DOMAIN a -> DOMAIN a] :
        /\ \A i \in DOMAIN a : \A j \in DOMAIN a : i # j => p[i] # p[j]
        /\ \A i \in DOMAIN a : \A j \in DOMAIN a : i < j => a[p[i]] <= a[p[j]]}

(* eigenvalues[index] *)
take(a, idx) == [i \in DOMAIN idx |-> a[idx[i]]]

(* eigenvectors[:, index]: column i of the result is column index[i].       *)
(* The rows are reordered instead of the columns (m[index, :]).             *)
take_columnsRows(m, idx) == [r \in DOMAIN m |-> m[idx[r]]]

take_columns(m, idx) == [r \in DOMAIN m |-> [i \in DOMAIN idx |-> m[r][idx[i]]]]

(* The eigenvalues the solver may return (repeated ones included): two     *)
(* real ones and one with an imaginary part, of the same real part as one   *)
(* of the real ones.                                                        *)
EigenValues == {<<-1, 0>>, <<0, 0>>, <<0, 1>>}

(* The permutations of the indices of an array of n elements.               *)
IndexPermutations(n) ==
    {p \in [Indices(n) -> Indices(n)] :
        \A i \in Indices(n) : \A j \in Indices(n) : i # j => p[i] # p[j]}

(* The matrices the solver may return: the eigenvectors are independent,    *)
(* here an orthonormal basis, the unit vectors of the n dimensions in any   *)
(* order (c[i] is the row of the 1 of column i).                            *)
EigenMatrices(n) ==
    {[r \in Indices(n) |-> [i \in Indices(n) |-> IF c[i] = r THEN 1 ELSE 0]] :
        c \in IndexPermutations(n)}

(* diagonalize is called with a square matrix h.                            *)
InitDiag ==
    /\ HamIdle
    /\ EnumIdle
    /\ RelIdle
    /\ RhoIdle
    /\ nop = 0
    /\ h_shape \in 1..MaxEig
    /\ w = <<>>
    /\ vr = <<>>
    /\ index = <<>>
    /\ eigenvalues = <<>>
    /\ eigenvectors = <<>>
    /\ dpc = "eig"

(* eigenvalues, eigenvectors = eig(h, check_finite=False): the solver       *)
(* returns h_shape eigenvalues and a matrix whose column i belongs to       *)
(* eigenvalue i.                                                            *)
Eig ==
    /\ dpc = "eig"
    /\ w' \in [Indices(h_shape) -> EigenValues]
    /\ vr' \in EigenMatrices(h_shape)
    /\ eigenvalues' = w'
    /\ eigenvectors' = vr'
    /\ dpc' = "real"
    /\ UNCHANGED <<nop, hamVars, enumVars, relVars, rhoVars, h_shape, index>>

(* eigenvalues = eigenvalues.real; index = eigenvalues.argsort()            *)
RealArgsort ==
    /\ dpc = "real"
    /\ eigenvalues' = real(eigenvalues)
    /\ index' \in argsort(eigenvalues')
    /\ dpc' = "reorder"
    /\ UNCHANGED <<nop, hamVars, enumVars, relVars, rhoVars, h_shape, w, vr, eigenvectors>>

(* eigenvectors = eigenvectors[:, index]; eigenvalues = eigenvalues[index]; *)
(* return eigenvalues, eigenvectors                                         *)
Reorder ==
    /\ dpc = "reorder"
    /\ eigenvectors' = take_columns(eigenvectors, index)
    /\ eigenvalues' = take(eigenvalues, index)
    /\ dpc' = "done"
    /\ UNCHANGED <<nop, hamVars, enumVars, relVars, rhoVars, h_shape, w, vr, index>>

NextDiag ==
    \/ Eig
    \/ RealArgsort
    \/ Reorder

SpecDiag == InitDiag /\ [][NextDiag]_vars

(* C11: what diagonalize returns is the solver's pairs (real part of the    *)
(* eigenvalue, eigenvector column) reordered by one permutation applied to  *)
(* both: the returned eigenvalues are in non-decreasing order, column i is  *)
(* the column the solver paired with returned eigenvalue i, and, the        *)
(* reordering being a permutation, no pair is lost or duplicated.           *)
C11_SortedAlignedPairs ==
    dpc = "done" =>
        /\ \A i \in Indices(h_shape) : \A j \in Indices(h_shape) :
              i < j => eigenvalues[i] <= eigenvalues[j]
        /\ \E p \in IndexPermutations(h_shape) :
              \A i \in Indices(h_shape) :
                 /\ eigenvalues[i] = w[p[i]][1]
                 /\ \A r \in Indices(h_shape) : eigenvectors[r][i] = vr[r][p[i]]

(* diagonalize has returned after a reordering that moved every pair of a   *)
(* solver output with three different columns, two of them with eigenvalues *)
(* of the same real part.                                                   *)
C11_Witness ==
    /\ dpc = "done"
    /\ h_shape = 3
    /\ \A i \in Indices(h_shape) : index[i] # i
    /\ \A i \in Indices(h_shape) : \A j \in Indices(h_shape) :
          i # j => \E r \in Indices(h_shape) : vr[r][i] # vr[r][j]
    /\ \E i \in Indices(h_shape) : \E j \in Indices(h_shape) :
          i # j /\ w[i] # w[j] /\ w[i][1] = w[j][1]
    /\ eigenvalues[0] < eigenvalues[2]

=============================================================================
